---------------------------- MODULE Spec2Model ----------------------------
(***************************************************************************)
(* A model of movie_bot.py: the SQLite ledger (users, movies, purchases,   *)
(* pending_payments), the chat handlers that create payment intents and    *)
(* debit balances, and process_callback_payload, the Payhero callback      *)
(* reconciliation run by the threaded Flask server.                        *)
(*                                                                         *)
(* Money is counted in whole shillings.  A Python str is a sequence of     *)
(* one-character strings, so that str(), isdigit(), int() and lower() are  *)
(* computed and not assumed.  A JSON document is a tagged record.          *)
(***************************************************************************)
EXTENDS Integers, Sequences, FiniteSets, TLC

(***************************************************************************)
(* Bounds of the model.                                                    *)
(***************************************************************************)
MaxIntents == 1     \* rows of pending_payments of one account
MaxPurchases == 2   \* rows of purchases when the last handler started
MaxInFlight == 2    \* handlers running at the same time
MaxBalance == 5     \* the balances the admin commands may reach, either side of 0

Accounts == {1, 2}
Seconds == {0, 1}           \* the values of int(time.time())
Workers == {1, 2}           \* Flask request threads (threaded=True)
ChatThreads == {1, 2}       \* telebot handler threads

(***************************************************************************)
(* Python values.                                                          *)
(***************************************************************************)
None == [t |-> "null"]
Str(s) == [t |-> "str", s |-> s]
IntV(n) == [t |-> "int", n |-> n]
FloatV(n) == [t |-> "float", n |-> n]   \* the float n.0
Bool(b) == [t |-> "bool", b |-> b]
Dict(items) == [t |-> "dict", items |-> items]   \* <<key, value>> pairs in document order
List(elems) == [t |-> "list", elems |-> elems]

\* bool(v) is False: what "if not v" tests.
Falsy(v) ==
    CASE v.t = "null" -> TRUE
      [] v.t = "str" -> Len(v.s) = 0
      [] v.t = "int" -> v.n = 0
      [] v.t = "float" -> v.n = 0
      [] v.t = "bool" -> ~v.b
      [] v.t = "dict" -> Len(v.items) = 0
      [] v.t = "list" -> Len(v.elems) = 0

HasKey(dct, k) == \E i \in 1..Len(dct.items) : dct.items[i][1] = k
GetItem(dct, k) ==
    dct.items[CHOOSE i \in 1..Len(dct.items) : dct.items[i][1] = k][2]

(***************************************************************************)
(* deep_find, lines 885-902.                                               *)
(***************************************************************************)
RECURSIVE deep_find(_, _)
RECURSIVE deep_find_values(_, _, _)
RECURSIVE deep_find_list(_, _, _)

\* for item in v: if isinstance(item, dict): res = deep_find(item, keys) ...
deep_find_list(lst, keys, j) ==
    IF j > Len(lst.elems) THEN None
    ELSE LET item == lst.elems[j]
             res == IF item.t = "dict" THEN deep_find(item, keys) ELSE None
         IN IF res.t # "null" THEN res ELSE deep_find_list(lst, keys, j + 1)

\* The loop over the values, were it to return the first nested result, null or not.
deep_find_values_first_result(dct, keys, i) ==
    IF i > Len(dct.items) THEN None
    ELSE LET v == dct.items[i][2]
         IN CASE v.t = "dict" -> deep_find(v, keys)
              [] v.t = "list" -> deep_find_list(v, keys, 1)
              [] OTHER -> deep_find_values(dct, keys, i + 1)

\* for v in dct.values(): ...
deep_find_values(dct, keys, i) ==
    IF i > Len(dct.items) THEN None
    ELSE LET v == dct.items[i][2]
             res == CASE v.t = "dict" -> deep_find(v, keys)
                      [] v.t = "list" -> deep_find_list(v, keys, 1)
                      [] OTHER -> None
         IN IF res.t # "null" THEN res ELSE deep_find_values(dct, keys, i + 1)

deep_find(dct, keys) ==
    IF dct.t # "dict" THEN None
    ELSE IF \E n \in 1..Len(keys) : HasKey(dct, keys[n])
         THEN LET n == CHOOSE m \in 1..Len(keys) :
                           /\ HasKey(dct, keys[m])
                           /\ \A l \in 1..(m - 1) : ~HasKey(dct, keys[l])
              IN GetItem(dct, keys[n])
         ELSE deep_find_values(dct, keys, 1)

ExternalKeys ==
    <<"ExternalReference", "external_reference", "externalReference", "reference", "reference_no">>
ResponseKeys ==
    <<"ExternalReference", "external_reference", "externalReference", "reference">>
ResultCodeKeys == <<"ResultCode", "result_code", "resultcode">>
StatusKeys == <<"Status", "status", "status_text", "statusText">>

\* lines 905-910: the reference, with the fallback under "response".
find_external(payload) ==
    LET external == deep_find(payload, ExternalKeys)
    IN IF Falsy(external)
          /\ payload.t = "dict"
          /\ HasKey(payload, "response")
          /\ GetItem(payload, "response").t = "dict"
       THEN deep_find(GetItem(payload, "response"), ResponseKeys)
       ELSE external

\* lines 907-909, for a payload that is no dict: deep_find gave None, and
\* "response" in payload is evaluated.  On a number or a bool it raises
\* TypeError; on a str or a list that holds "response", payload["response"] does.
RESPONSE == <<"r", "e", "s", "p", "o", "n", "s", "e">>
Contains(s, sub) ==
    \E i \in 1..(Len(s) - Len(sub) + 1) : SubSeq(s, i, i + Len(sub) - 1) = sub
find_external_raises(payload) ==
    CASE payload.t \in {"int", "float", "bool", "null"} -> TRUE
      [] payload.t = "str" -> Contains(payload.s, RESPONSE)
      [] payload.t = "list" ->
             \E i \in 1..Len(payload.elems) :
                 payload.elems[i].t = "str" /\ payload.elems[i].s = RESPONSE
      [] OTHER -> FALSE

(***************************************************************************)
(* Python strings: str(), str.isdigit(), int(), str.lower().               *)
(***************************************************************************)
DecimalDigits == <<"0", "1", "2", "3", "4", "5", "6", "7", "8", "9">>
UpperCase == <<"A", "B", "C", "D", "E", "F", "G", "H", "I", "J", "K", "L", "M",
               "N", "O", "P", "Q", "R", "S", "T", "U", "V", "W", "X", "Y", "Z">>
LowerCase == <<"a", "b", "c", "d", "e", "f", "g", "h", "i", "j", "k", "l", "m",
               "n", "o", "p", "q", "r", "s", "t", "u", "v", "w", "x", "y", "z">>
\* Characters str.isdigit() accepts and int() rejects (superscript two).
SuperscriptDigits == {"^2"}

IsDecimal(c) == \E d \in 1..10 : DecimalDigits[d] = c
DigitValue(c) == (CHOOSE d \in 1..10 : DecimalDigits[d] = c) - 1

RECURSIVE NatToChars(_)
NatToChars(n) ==
    IF n < 10 THEN <<DecimalDigits[n + 1]>>
    ELSE NatToChars(n \div 10) \o <<DecimalDigits[(n % 10) + 1]>>

IntToChars(n) == IF n < 0 THEN <<"-">> \o NatToChars(0 - n) ELSE NatToChars(n)

\* str(v); of a container only the brackets are kept.
PyStr(v) ==
    CASE v.t = "null" -> <<"N", "o", "n", "e">>
      [] v.t = "str" -> v.s
      [] v.t = "int" -> IntToChars(v.n)
      [] v.t = "float" -> IntToChars(v.n) \o <<".", "0">>
      [] v.t = "bool" -> IF v.b THEN <<"T", "r", "u", "e">> ELSE <<"F", "a", "l", "s", "e">>
      [] v.t = "dict" -> <<"{", "}">>
      [] v.t = "list" -> <<"[", "]">>

isdigit(s) ==
    /\ Len(s) > 0
    /\ \A i \in 1..Len(s) : IsDecimal(s[i]) \/ s[i] \in SuperscriptDigits

RECURSIVE CharsToNat(_)
CharsToNat(s) ==
    IF Len(s) = 0 THEN 0
    ELSE 10 * CharsToNat(SubSeq(s, 1, Len(s) - 1)) + DigitValue(s[Len(s)])

\* int(v) raises ValueError; asked only of values whose str() passed isdigit().
int_raises(v) == v.t = "str" /\ \E i \in 1..Len(v.s) : ~IsDecimal(v.s[i])
int_value(v) == IF v.t = "int" THEN v.n ELSE CharsToNat(v.s)

LowerChar(c) ==
    IF \E i \in 1..26 : UpperCase[i] = c
    THEN LowerCase[CHOOSE i \in 1..26 : UpperCase[i] = c]
    ELSE c
lower(s) == [i \in 1..Len(s) |-> LowerChar(s[i])]

SuccessWords ==
    { <<"s", "u", "c", "c", "e", "s", "s">>,
      <<"c", "o", "m", "p", "l", "e", "t", "e", "d">>,
      <<"o", "k">> }

\* lines 934-941: determine success.
determine_success(result_code, status_field) ==
    IF result_code.t # "null" /\ isdigit(PyStr(result_code))
    THEN IF int_raises(result_code) THEN FALSE      \* except Exception: success = False
         ELSE IF int_value(result_code) = 0 THEN TRUE
         ELSE status_field.t = "str" /\ lower(status_field.s) \in SuccessWords
    ELSE status_field.t = "str" /\ lower(status_field.s) \in SuccessWords

(***************************************************************************)
(* The ledger.  A database d is a record                                   *)
(*   users            : chat_id -> balance (the rows of table users)       *)
(*   pending_payments : external_ref -> row                                *)
(*   purchases        : the rows of table purchases in id order            *)
(* Every helper opens a connection, runs its statements and commits, so    *)
(* each helper below is one atomic step on the database except             *)
(* charge_balance, whose SELECT and UPDATE are two statements.             *)
(***************************************************************************)
NULL == <<>>      \* SQL NULL in a text column (movie_id, external_ref)

\* lines 278-518: the seeded catalogue (every seeded row has price 5.0 and a
\* file_id), and a row left in DB_FILE by an earlier catalogue, without file_id.
XV1 == <<"x", "v", " ", "1">>
OLD == <<"o", "l", "d">>
movies ==
    (XV1 :> [title |-> "GOOD", price |-> 5, file_id |-> <<"B", "A", "A", "C">>])
    @@ (OLD :> [title |-> "OLD", price |-> 5, file_id |-> <<>>])

get_movie(mid) == IF mid \in DOMAIN movies THEN <<movies[mid]>> ELSE <<>>

ensure_user(d, chat_id) ==
    IF chat_id \in DOMAIN d.users THEN d
    ELSE [d EXCEPT !.users = d.users @@ (chat_id :> 0)]

get_balance(d, chat_id) ==
    IF chat_id \in DOMAIN d.users THEN d.users[chat_id] ELSE 0

\* An add_balance whose UPDATE is SET balance = ?.
add_balance_overwriting(d, chat_id, amount) ==
    LET e == ensure_user(d, chat_id)
    IN [e EXCEPT !.users[chat_id] = amount]

\* lines 142-148.  ensure_user commits on its own connection before the UPDATE;
\* rows of users are never deleted, so the UPDATE always finds the row.
add_balance(d, chat_id, amount) ==
    LET e == ensure_user(d, chat_id)
    IN [e EXCEPT !.users[chat_id] = @ + amount]

set_balance(d, chat_id, amount) ==
    LET e == ensure_user(d, chat_id)
    IN [e EXCEPT !.users[chat_id] = amount]

\* line 161-165: the SELECT of charge_balance and its test.
charge_balance_check(d, chat_id, amount) ==
    chat_id \in DOMAIN d.users /\ ~(d.users[chat_id] < amount)

\* line 166: UPDATE users SET balance = balance - ?.
charge_balance_update(d, chat_id, amount) ==
    IF chat_id \in DOMAIN d.users
    THEN [d EXCEPT !.users[chat_id] = @ - amount]
    ELSE d

\* A record_purchase that writes its row over the newest one.
record_purchase_replacing(d, chat_id, movie_id, amount, method, external_ref) ==
    LET row == [chat_id |-> chat_id, movie_id |-> movie_id, amount |-> amount,
                method |-> method, external_ref |-> external_ref]
    IN [d EXCEPT !.purchases = IF Len(@) = 0 THEN <<row>> ELSE [@ EXCEPT ![Len(@)] = row]]

\* lines 196-203: an INSERT with a fresh AUTOINCREMENT id.
record_purchase(d, chat_id, movie_id, amount, method, external_ref) ==
    [d EXCEPT !.purchases = Append(@,
        [chat_id |-> chat_id, movie_id |-> movie_id, amount |-> amount,
         method |-> method, external_ref |-> external_ref])]

\* lines 205-214: INSERT OR REPLACE, status QUEUED.  checkout_id and created_at
\* are written here and read nowhere but in the /debug/pending dump.
create_pending_payment(d, external_ref, chat_id, movie_id, amount, ptype, phone) ==
    LET row == [chat_id |-> chat_id, movie_id |-> movie_id, amount |-> amount,
                type |-> ptype, phone |-> phone, status |-> "QUEUED"]
    IN [d EXCEPT !.pending_payments =
            [r \in DOMAIN @ \cup {external_ref} |->
                IF r = external_ref THEN row ELSE @[r]]]

\* sqlite3 cannot bind a dict or a list: cur.execute raises ProgrammingError.
get_pending_raises(external) == external.t \in {"dict", "list"}

\* lines 216-222.  The column is TEXT: a str is compared as it is, a number by
\* its decimal text, and no reference the program makes is such a text.
get_pending(d, external) ==
    IF external.t = "str" /\ external.s \in DOMAIN d.pending_payments
    THEN <<d.pending_payments[external.s]>>
    ELSE <<>>

\* A set_pending_status whose UPDATE matches no row.
set_pending_status_lost(d, external_ref, status) == d

\* lines 224-229: an UPDATE, which changes nothing when no row matches.
set_pending_status(d, external_ref, status) ==
    IF external_ref \in DOMAIN d.pending_payments
    THEN [d EXCEPT !.pending_payments[external_ref].status = status]
    ELSE d

\* lines 244-249.
make_external_reference(chat_id, what, movie_id, ts) ==
    IF what = "TOPUP"
    THEN <<"T", "O", "P", "U", "P", "-">> \o IntToChars(chat_id) \o <<"-">> \o IntToChars(ts)
    ELSE <<"P", "U", "R", "-">> \o IntToChars(chat_id) \o <<"-">> \o movie_id
             \o <<"-">> \o IntToChars(ts)

(***************************************************************************)
(* process_callback_payload, lines 878-984, as the steps of one request    *)
(* thread.  A world w is [d, delivered, credited]: the database, the       *)
(* documents Telegram accepted, and how often each reference was credited. *)
(* A step is the code between two commits; loc holds the thread's local    *)
(* variables, tg the outcome of each Telegram call of the step (TRUE: the  *)
(* call returns, FALSE: it raises).                                        *)
(***************************************************************************)
Idle ==
    [pc |-> "idle", external |-> NULL, success |-> FALSE, chat_id |-> 0,
     ptype |-> "", amount |-> 0, movie_id |-> NULL]

NoResp == [raised |-> FALSE, status |-> FALSE, message |-> "", code |-> 0]
Body(status, message) ==
    [raised |-> FALSE, status |-> status, message |-> message, code |-> 200]
\* An exception leaves process_callback_payload; Flask answers 500.
Raised == [raised |-> TRUE, status |-> FALSE, message |-> "", code |-> 500]

TgOutcomes == [confirm : BOOLEAN, document : BOOLEAN, failnote : BOOLEAN, apology : BOOLEAN]
TgAllOk == [confirm |-> TRUE, document |-> TRUE, failnote |-> TRUE, apology |-> TRUE]
TgAllFail == [confirm |-> FALSE, document |-> FALSE, failnote |-> FALSE, apology |-> FALSE]

Finished(loc) == loc.pc \in {"done", "raised"}
Finish(w, resp) ==
    [w |-> w, loc |-> [Idle EXCEPT !.pc = IF resp.raised THEN "raised" ELSE "done"],
     resp |-> resp]
Goto(w, loc, pc) == [w |-> w, loc |-> [loc EXCEPT !.pc = pc], resp |-> NoResp]

\* The answer to a callback without a reference, given with status true.
missing_external_reference_acknowledged(w) ==
    Finish(w, Body(TRUE, "missing external reference"))

\* lines 914-921: the admin is told inside a try; the store is not touched.
missing_external_reference(w) ==
    Finish(w, Body(FALSE, "missing external reference"))

\* lines 923-931.
unknown_external_reference(w) ==
    Finish(w, Body(FALSE, "unknown external reference"))

\* The amount, were it read from the payload where the payload names one.
amount_of_payload(pending, payload) ==
    LET said == deep_find(payload, <<"Amount">>)
    IN IF said.t = "int" THEN said.n ELSE pending.amount

\* line 945: amount = float(pending["amount"]); the payload is not consulted.
amount_of(pending, payload) == pending.amount

\* lines 905-946: resolve the payload, look the intent up, determine success.
cb_resolve(w, loc, payload) ==
    LET external == find_external(payload)
        result_code == deep_find(payload, ResultCodeKeys)
        status_field == deep_find(payload, StatusKeys)
    IN IF find_external_raises(payload) THEN Finish(w, Raised)
       ELSE IF Falsy(external)
       THEN missing_external_reference(w)
       ELSE IF get_pending_raises(external) THEN Finish(w, Raised)
       ELSE LET pending == get_pending(w.d, external)
            IN IF pending = <<>>
               THEN unknown_external_reference(w)
               ELSE Goto(w, [loc EXCEPT !.external = external.s,
                                        !.success = determine_success(result_code, status_field),
                                        !.chat_id = pending[1].chat_id,
                                        !.ptype = pending[1].type,
                                        !.amount = amount_of(pending[1], payload),
                                        !.movie_id = pending[1].movie_id],
                         "finalize")

\* The step, were the status written on success only.
cb_finalize_on_success_only(w, loc) ==
    IF loc.success
    THEN Goto([w EXCEPT !.d = set_pending_status(@, loc.external, "success")], loc,
              IF loc.ptype = "topup" THEN "credit" ELSE "deliver")
    ELSE Finish(w, Body(TRUE, "not success"))

\* lines 948-949 and 975-984: set the status; a failure notifies and returns.
cb_finalize(w, loc) ==
    IF loc.success
    THEN Goto([w EXCEPT !.d = set_pending_status(@, loc.external, "success")], loc,
              IF loc.ptype = "topup" THEN "credit" ELSE "deliver")
    ELSE Finish([w EXCEPT !.d = set_pending_status(@, loc.external, "failed")],
                Body(TRUE, "not success"))

\* The credit, were it given to every account that has a row.
cb_credit_everyone(w, loc) ==
    Goto([w EXCEPT !.d.users = [c \in DOMAIN @ |-> @[c] + loc.amount],
                   !.credited = [r \in DOMAIN @ \cup {loc.external} |->
                                    IF r \in DOMAIN @
                                    THEN (IF r = loc.external THEN @[r] + 1 ELSE @[r])
                                    ELSE 1]],
         loc, "record_topup")

\* lines 951-953: add_balance; prev and new_bal only fill the message text.
cb_credit(w, loc) ==
    Goto([w EXCEPT !.d = add_balance(@, loc.chat_id, loc.amount),
                   !.credited = [r \in DOMAIN @ \cup {loc.external} |->
                                    IF r \in DOMAIN @
                                    THEN (IF r = loc.external THEN @[r] + 1 ELSE @[r])
                                    ELSE 1]],
         loc, "record_topup")

\* lines 954-959.
cb_record_topup(w, loc) ==
    Finish([w EXCEPT !.d = record_purchase(@, loc.chat_id, NULL, loc.amount,
                                            "stk_topup", loc.external)],
           Body(TRUE, ""))

\* lines 869-875: TRUE when the function returns, FALSE when it raises.
send_movie_returns(tg) == tg.document \/ tg.failnote

\* lines 961-965 and 968-974: look the movie up and send it.
cb_deliver(w, loc, tg) ==
    LET movie == get_movie(loc.movie_id)
        sent == [chat_id |-> loc.chat_id, file_id |-> movie[1].file_id,
                 external_ref |-> loc.external]
    IN IF movie # <<>> /\ Len(movie[1].file_id) > 0
       THEN IF tg.confirm /\ send_movie_returns(tg)
            THEN Goto([w EXCEPT !.delivered =
                          IF tg.document THEN Append(@, sent) ELSE @],
                      loc, "record_purchase")
            ELSE \* except Exception: line 970 is outside any try
                 IF tg.apology THEN Finish(w, Body(FALSE, "delivery failed"))
                 ELSE Finish(w, Raised)
       ELSE IF tg.apology THEN Finish(w, Body(FALSE, "movie missing"))
            ELSE Finish(w, Raised)

\* lines 966-967.
cb_record_purchase(w, loc) ==
    Finish([w EXCEPT !.d = record_purchase(@, loc.chat_id, loc.movie_id, loc.amount,
                                            "stk", loc.external)],
           Body(TRUE, ""))

CbStep(w, loc, payload, tg) ==
    CASE loc.pc = "start" -> cb_resolve(w, loc, payload)
      [] loc.pc = "finalize" -> cb_finalize(w, loc)
      [] loc.pc = "credit" -> cb_credit(w, loc)
      [] loc.pc = "record_topup" -> cb_record_topup(w, loc)
      [] loc.pc = "deliver" -> cb_deliver(w, loc, tg)
      [] loc.pc = "record_purchase" -> cb_record_purchase(w, loc)

RECURSIVE CbRun(_, _, _, _)
CbRun(w, loc, payload, tg) ==
    LET r == CbStep(w, loc, payload, tg)
    IN IF Finished(r.loc) THEN r ELSE CbRun(r.w, r.loc, payload, tg)

\* One whole call, with no other thread running.
process_callback_payload(w, payload, tg) ==
    CbRun(w, [Idle EXCEPT !.pc = "start"], payload, tg)

(***************************************************************************)
(* cb_handler, "pay_bal:" (Buy from balance), lines 608-644, as the steps  *)
(* of one telebot handler thread.                                          *)
(***************************************************************************)
ChatIdle ==
    [pc |-> "idle", chat_id |-> 0, movie_id |-> NULL, price |-> 0, amount |-> 0, newbal |-> 0]

PayFinish(w) == [w |-> w, loc |-> [ChatIdle EXCEPT !.pc = "done"]]
PayGoto(w, loc, pc) == [w |-> w, loc |-> [loc EXCEPT !.pc = pc]]

\* lines 611 and 627-634: ensure_user, get_movie, get_balance and the test.
pay_bal_begin(w, loc) ==
    LET d == ensure_user(w.d, loc.chat_id)
        movie == get_movie(loc.movie_id)
    IN IF movie = <<>> THEN PayFinish([w EXCEPT !.d = d])
       ELSE IF get_balance(d, loc.chat_id) >= movie[1].price
            THEN PayGoto([w EXCEPT !.d = d], [loc EXCEPT !.price = movie[1].price], "select")
            ELSE PayFinish([w EXCEPT !.d = d])

\* lines 159-165.
charge_balance_select(w, loc) ==
    IF charge_balance_check(w.d, loc.chat_id, loc.price)
    THEN PayGoto(w, loc, "update")
    ELSE PayFinish(w)

\* lines 166-169.
charge_balance_commit(w, loc) ==
    PayGoto([w EXCEPT !.d = charge_balance_update(@, loc.chat_id, loc.price)], loc, "record")

\* lines 637-639: the message of line 638 is outside any try.
pay_bal_record(w, loc, tg) ==
    LET sent == [chat_id |-> loc.chat_id, file_id |-> movies[loc.movie_id].file_id,
                 external_ref |-> NULL]
    IN PayFinish([w EXCEPT !.d = record_purchase(@, loc.chat_id, loc.movie_id, loc.price,
                                                  "balance", NULL),
                           !.delivered = IF tg.confirm /\ tg.document /\ Len(sent.file_id) > 0
                                         THEN Append(@, sent) ELSE @])

\* lines 726-728 of /admin_remove, for the admin and well-formed arguments:
\* ensure_user, bal = get_balance(target), newbal = max(0.0, bal - amount).
admin_remove_read(w, loc) ==
    LET d == ensure_user(w.d, loc.chat_id)
        bal == get_balance(d, loc.chat_id)
    IN PayGoto([w EXCEPT !.d = d],
               [loc EXCEPT !.newbal = IF bal - loc.amount >= 0 THEN bal - loc.amount ELSE 0],
               "set")

\* line 729: set_balance(target, newbal).
admin_remove_set(w, loc) ==
    PayFinish([w EXCEPT !.d = set_balance(@, loc.chat_id, loc.newbal)])

PayStep(w, loc, tg) ==
    CASE loc.pc = "start" -> pay_bal_begin(w, loc)
      [] loc.pc = "select" -> charge_balance_select(w, loc)
      [] loc.pc = "update" -> charge_balance_commit(w, loc)
      [] loc.pc = "record" -> pay_bal_record(w, loc, tg)
      [] loc.pc = "remove" -> admin_remove_read(w, loc)
      [] loc.pc = "set" -> admin_remove_set(w, loc)

RECURSIVE PayRun(_, _, _)
PayRun(w, loc, tg) ==
    LET r == PayStep(w, loc, tg)
    IN IF r.loc.pc = "done" THEN r ELSE PayRun(r.w, r.loc, tg)

\* One whole button press, with no other thread running.
cb_handler_pay_bal(w, chat_id, movie_id, tg) ==
    PayRun(w, [ChatIdle EXCEPT !.pc = "start", !.chat_id = chat_id, !.movie_id = movie_id], tg)

(***************************************************************************)
(* payhero_callback and root_handler on a POST, lines 987-1054.  A request *)
(* body is [kind, value]: "json" when the whole body is the JSON text of   *)
(* value, "embedded" when it is other text in which the first { to the     *)
(* last } is the JSON text of the dict value, "garbage" when neither.      *)
(***************************************************************************)
BadRequest(message) ==
    [raised |-> FALSE, status |-> FALSE, message |-> message, code |-> 400]

\* request.get_json(force=True, silent=True): None when the body is not JSON.
get_json(body) == IF body.kind = "json" THEN body.value ELSE None

\* lines 1037-1049: json.loads(raw), then the search for {.*}.
parse_raw(body) == IF body.kind \in {"json", "embedded"} THEN body.value ELSE None

\* The POST branch of both routes: parse, refuse a falsy payload, reconcile.
handle_post(w, body, tg, refusal) ==
    LET first == get_json(body)
        payload == IF Falsy(first) THEN parse_raw(body) ELSE first
    IN IF Falsy(payload) THEN [w |-> w, resp |-> BadRequest(refusal)]
       ELSE LET r == process_callback_payload(w, payload, tg)
            IN [w |-> r.w, resp |-> r.resp]

\* lines 1030-1054.
payhero_callback(w, body, tg) == handle_post(w, body, tg, "bad request")

\* lines 992-1021.
root_handler(w, body, tg) == handle_post(w, body, tg, "empty or invalid POST body")

(***************************************************************************)
(* normalize_phone and float(), on the texts the model sends.              *)
(***************************************************************************)
StartsWith(s, p) == Len(s) >= Len(p) /\ SubSeq(s, 1, Len(p)) = p

RECURSIVE Strip(_)
\* strip() and the two replace() calls of line 255 together: no blank, no dash.
Strip(s) ==
    IF Len(s) = 0 THEN <<>>
    ELSE IF s[1] \in {" ", "-"} THEN Strip(Tail(s))
    ELSE <<s[1]>> \o Strip(Tail(s))

\* lines 251-273: <<phone>>, or <<>> for None.
normalize_phone(text) ==
    IF Len(text) = 0 THEN <<>>
    ELSE LET txt == Strip(text)
         IN CASE StartsWith(txt, <<"+", "2", "5", "4">>) /\ Len(txt) >= 12 -> <<txt>>
              [] StartsWith(txt, <<"0", "7">>) \/ StartsWith(txt, <<"0", "1">>) ->
                     << <<"+", "2", "5", "4">> \o Tail(txt) >>
              [] StartsWith(txt, <<"7">>) \/ StartsWith(txt, <<"1">>) ->
                     << <<"+", "2", "5", "4">> \o txt >>
              [] StartsWith(txt, <<"2", "5", "4">>) /\ Len(txt) >= 12 -> << <<"+">> \o txt >>
              [] OTHER -> <<>>

\* float(txt) of a text made of an optional sign and decimal digits, and of
\* nan in any letter case; of any other text the model sends it raises.  The
\* model writes floats as integers, and float("nan") as NaN, a number that no
\* text of the model denotes and that LessEq treats as Python treats nan.
NaN == 0 - 1
LessEq(a, b) == a # NaN /\ b # NaN /\ a <= b

Unsigned(txt) == IF Len(txt) > 0 /\ txt[1] \in {"-", "+"} THEN Tail(txt) ELSE txt
float_raises(txt) ==
    /\ lower(Unsigned(txt)) # <<"n", "a", "n">>
    /\ \/ Len(Unsigned(txt)) = 0
       \/ \E i \in 1..Len(Unsigned(txt)) : ~IsDecimal(Unsigned(txt)[i])
float_value(txt) ==
    IF lower(Unsigned(txt)) = <<"n", "a", "n">> THEN NaN
    ELSE IF Len(txt) > 0 /\ txt[1] = "-" THEN 0 - CharsToNat(Unsigned(txt))
    ELSE CharsToNat(Unsigned(txt))

(***************************************************************************)
(* State.                                                                  *)
(***************************************************************************)
VARIABLES
    db,              \* the SQLite file: users, pending_payments, purchases
    delivered,       \* documents Telegram accepted: [chat_id, file_id, external_ref]
    credited,        \* external_ref -> number of add_balance calls made for it
    awaiting_phone,  \* line 659: chat_id -> conversation state
    now,             \* int(time.time())
    http,            \* Flask thread -> locals of its process_callback_payload
    chat,            \* telebot thread -> locals of its cb_handler
    last             \* the last whole call of process_callback_payload

vars == <<db, delivered, credited, awaiting_phone, now, http, chat, last>>

World == [d |-> db, delivered |-> delivered, credited |-> credited]
SetWorld(w) == db' = w.d /\ delivered' = w.delivered /\ credited' = w.credited

users == db.users
pending_payments == db.pending_payments
purchases == db.purchases

NoState == [type |-> "none", movie_id |-> NULL, amount |-> 0]
NoCall == [called |-> FALSE, op |-> "none"]

\* Handlers running: each appends at most one row to purchases.
InFlight ==
    Cardinality({wk \in Workers : http[wk].pc # "idle"})
    + Cardinality({th \in ChatThreads : chat[th].pc # "idle"})
Room == Len(purchases) < MaxPurchases /\ InFlight < MaxInFlight
SomeChatThreadIdle == \E th \in ChatThreads : chat[th].pc = "idle"
\* Which idle thread takes a new request makes no difference: the first one does.
FirstIdle(threads, locals, th) ==
    /\ locals[th].pc = "idle"
    /\ \A o \in threads : locals[o].pc = "idle" => ~(o < th)

Init ==
    /\ db = [users |-> <<>>, pending_payments |-> <<>>, purchases |-> <<>>]
    /\ delivered = <<>>
    /\ credited = <<>>
    /\ awaiting_phone = [c \in Accounts |-> NoState]
    /\ now = 0
    /\ http = [wk \in Workers |-> Idle]
    /\ chat = [th \in ChatThreads |-> ChatIdle]
    /\ last = NoCall

(***************************************************************************)
(* Inputs.                                                                 *)
(***************************************************************************)
Texts == { <<"5">>, <<"1", "0">>, <<"0">>, <<"x">>, <<"n", "a", "n">> }
AmountTexts == { <<"5">>, <<"1", "0">> }    \* texts float() accepts as a positive amount
PhoneTexts == { <<"1", "0">> }              \* texts normalize_phone accepts
\* What requests.post does: it raises, or it returns a response with a status
\* code and a body: a JSON object, text that is no JSON, or JSON that is no
\* object (null).
GatewayOutcomes == {"exception", "200", "201", "500", "200 text", "200 null"}
MovieButtons == DOMAIN movies \cup { <<"x", "v", " ", "0">> }
BOGUS == <<"N", "O", "P", "E">>

Entry(k, v) == << <<k, v>> >>
Success == <<"S", "u", "c", "c", "e", "s", "s">>
Failed == <<"F", "a", "i", "l", "e", "d">>
Ok == Entry("ResultCode", IntV(0))

ResultCodeValues ==
    { IntV(0), IntV(1), Str(<<"0">>), Str(<<"1">>), FloatV(0), Str(<<"^2">>), None }
StatusValues ==
    { Str(Success), Str(Failed), Str(<<"O", "K">>), Str(<<"c", "o", "m", "p", "l", "e", "t", "e", "d">>),
      Bool(TRUE) }
ResultCodeEntries == {<<>>} \cup { Entry("ResultCode", v) : v \in ResultCodeValues }
StatusEntries == {<<>>} \cup { Entry("Status", v) : v \in StatusValues }

\* Callbacks naming reference r with every result code and status.
OutcomePayloads(r) ==
    { Dict(Entry("external_reference", Str(r)) \o c \o st) :
        c \in ResultCodeEntries, st \in StatusEntries }

\* Callbacks carrying reference r under every alias, nested, and in other types.
ShapePayloads(r) ==
    { Dict(Entry(ExternalKeys[i], Str(r)) \o Ok) : i \in 1..Len(ExternalKeys) }
    \cup
    { Dict(Entry("response", Dict(Entry("reference", Str(r)) \o Ok))),
      Dict(Entry("data", List(<<Str(<<"x">>), Dict(Entry("ExternalReference", Str(r)))>>))
           \o Entry("Status", Str(Success))),
      Dict(Entry("reference", None) \o Entry("data", Dict(Entry("external_reference", Str(r))))
           \o Ok),
      Dict(Entry("reference", Str(<<>>)) \o Entry("response", Dict(Entry("reference", Str(r))))
           \o Ok),
      Dict(Entry("reference", Str(<<>>)) \o Entry("response", Dict(Entry("reference_no", Str(r))))
           \o Ok),
      Dict(Entry("reference", Dict(Entry("id", Str(r)))) \o Ok),
      Dict(Entry("reference", List(<<Str(r)>>)) \o Ok),
      Dict(Entry("reference", IntV(7)) \o Ok),
      Dict(Entry("reference", IntV(0)) \o Ok),
      Dict(Entry("reference", Bool(TRUE)) \o Ok),
      Dict(Entry("reference", Str(BOGUS)) \o Entry("external_reference", Str(r)) \o Ok),
      Dict(Entry("data", Dict(Entry("external_reference", Str(BOGUS))))
           \o Entry("reference", Str(r)) \o Ok),
      Dict(Entry("a", Dict(Entry("reference", None)))
           \o Entry("b", List(<<Dict(Entry("x", IntV(1))), Dict(Entry("reference", Str(r)))>>))
           \o Entry("c", Dict(Entry("reference", Str(BOGUS)))) \o Ok),
      Dict(Entry("data", List(<<List(<<Dict(Entry("reference", Str(r)))>>)>>)) \o Ok),
      List(<<Dict(Entry("reference", Str(r)) \o Ok)>>) }

\* Successful callbacks naming reference r that differ in every other field.
DetailPayloads(r) ==
    { Dict(Entry("external_reference", Str(r)) \o Ok \o Entry("Amount", IntV(a))
           \o Entry("Phone", Str(<<"2", "5", "4", "7">>)) \o Entry("chat_id", IntV(c))) :
        a \in {1, 10}, c \in Accounts }
    \cup
    { Dict(Entry("response", Dict(Entry("Amount", IntV(10)) \o Entry("chat_id", IntV(2))
                                  \o Entry("ExternalReference", Str(r))
                                  \o Entry("Status", Str(Success))))) }

\* Callbacks with no reference key at any level.
AnonymousPayloads ==
    { Dict(Ok),
      Dict(Entry("Status", Str(Success))),
      Dict(Entry("data", Dict(Ok))),
      Dict(Entry("response", Dict(Ok))),
      Dict(Entry("items", List(<<Dict(Entry("Status", Str(Success))), Str(<<"x">>)>>))) }

\* The gateway calls back about references it was given; anyone may post anything.
References(d) == DOMAIN d.pending_payments \cup {BOGUS}
Payloads(d) ==
    AnonymousPayloads
    \cup UNION { OutcomePayloads(r) : r \in DOMAIN d.pending_payments }
    \cup UNION { ShapePayloads(r) : r \in References(d) }
    \cup UNION { DetailPayloads(r) : r \in DOMAIN d.pending_payments }

\* A callback that reports success, and one that reports failure.
SuccessPayload(r) == Dict(Entry("external_reference", Str(r)) \o Ok)
FailurePayload(r) == Dict(Entry("external_reference", Str(r)) \o Entry("Status", Str(Failed)))

\* The callbacks the threaded server is run against.
PlainPayloads(d) ==
    { Dict(Ok) } \cup UNION { {SuccessPayload(r), FailurePayload(r)} : r \in References(d) }

(***************************************************************************)
(* What the properties say of a payload, stated apart from the code.       *)
(***************************************************************************)
RECURSIVE MentionsKey(_, _)
\* Some key of keys occurs in v at some nesting level.
MentionsKey(v, keys) ==
    CASE v.t = "dict" ->
             \E i \in 1..Len(v.items) :
                 \/ \E n \in 1..Len(keys) : v.items[i][1] = keys[n]
                 \/ MentionsKey(v.items[i][2], keys)
      [] v.t = "list" -> \E i \in 1..Len(v.elems) : MentionsKey(v.elems[i], keys)
      [] OTHER -> FALSE

RECURSIVE CarriesReference(_)
\* Some reference alias key of v holds a non-empty value, at the top or inside
\* nested mappings or lists of mappings.
CarriesReference(v) ==
    /\ v.t = "dict"
    /\ \E i \in 1..Len(v.items) :
          LET k == v.items[i][1]
              x == v.items[i][2]
          IN \/ (\E n \in 1..Len(ExternalKeys) : k = ExternalKeys[n]) /\ ~Falsy(x)
             \/ CarriesReference(x)
             \/ x.t = "list" /\ \E j \in 1..Len(x.elems) : CarriesReference(x.elems[j])

RECURSIVE FirstAlias(_, _, _)
\* The value under the first alias, from position n of the alias list on, that
\* is a key of mapping v.
FirstAlias(v, keys, n) ==
    IF HasKey(v, keys[n]) THEN GetItem(v, keys[n]) ELSE FirstAlias(v, keys, n + 1)

RECURSIVE Candidates(_, _)
RECURSIVE CandidatesOfItems(_, _, _)
RECURSIVE CandidatesOfElems(_, _, _)
\* The values a search for keys meets in v, in the order it meets them: the
\* value of the first alias that is a key of a mapping where there is one (the
\* search does not look below such a mapping), else what the mapping's values
\* hold, in document order, through mappings and lists of mappings.
Candidates(v, keys) ==
    IF v.t # "dict" THEN <<>>
    ELSE IF \E n \in 1..Len(keys) : HasKey(v, keys[n])
         THEN <<FirstAlias(v, keys, 1)>>
         ELSE CandidatesOfItems(v.items, keys, Len(v.items))

\* The candidates of the first n items of a mapping.
CandidatesOfItems(items, keys, n) ==
    IF n = 0 THEN <<>>
    ELSE LET x == items[n][2]
         IN CandidatesOfItems(items, keys, n - 1)
            \o (IF x.t = "list" THEN CandidatesOfElems(x.elems, keys, Len(x.elems))
                ELSE Candidates(x, keys))

\* The candidates of the first n elements of a list.
CandidatesOfElems(elems, keys, n) ==
    IF n = 0 THEN <<>>
    ELSE CandidatesOfElems(elems, keys, n - 1) \o Candidates(elems[n], keys)

\* The first candidate that is not null, or null when there is none.
FirstFound(v, keys) ==
    LET c == Candidates(v, keys)
        found == { i \in 1..Len(c) : c[i].t # "null" }
    IN IF found = {} THEN None
       ELSE c[CHOOSE i \in found : \A j \in found : i <= j]

\* v is a number equal to 0, or a text that is a decimal numeral of value 0.
NumericZero(v) ==
    CASE v.t = "int" -> v.n = 0
      [] v.t = "float" -> v.n = 0
      [] v.t = "str" -> /\ Len(v.s) > 0
                        /\ \A i \in 1..Len(v.s) : v.s[i] = "0"
      [] OTHER -> FALSE

\* v is the text success, completed or ok in any letter case.
SaysSuccess(v) ==
    /\ v.t = "str"
    /\ \E word \in SuccessWords :
          /\ Len(word) = Len(v.s)
          /\ \A i \in 1..Len(word) :
                \/ v.s[i] = word[i]
                \/ \E l \in 1..26 : LowerCase[l] = word[i] /\ UpperCase[l] = v.s[i]

(***************************************************************************)
(* Actions of the chat side.  The handlers below touch the store in one    *)
(* place each and are single steps.                                        *)
(***************************************************************************)
Tick ==
    /\ now + 1 \in Seconds
    /\ now' = now + 1
    /\ last' = NoCall
    /\ UNCHANGED <<db, delivered, credited, awaiting_phone, http, chat>>

\* cb_handler, "pay_stk:", lines 608-623: the database and the conversation
\* state after it.
pay_stk(d, aw, chat_id, movie_id) ==
    [d |-> ensure_user(d, chat_id),
     aw |-> IF get_movie(movie_id) = <<>> THEN aw
            ELSE [aw EXCEPT ![chat_id] =
                     [type |-> "purchase", movie_id |-> movie_id,
                      amount |-> get_movie(movie_id)[1].price]]]

\* lines 661-666.
cmd_topup(d, aw, chat_id) ==
    [d |-> ensure_user(d, chat_id),
     aw |-> [aw EXCEPT ![chat_id] =
                [type |-> "topup_wait_amount", movie_id |-> NULL, amount |-> 0]]]

\* line 38: the deployment's value of the environment variable.
ADMIN_TELEGRAM_ID == 2

Max(a, b) == IF a >= b THEN a ELSE b

\* The command, were the sender not tested.
cmd_admin_modify_by_anyone(d, from_id, cmd, args) ==
    IF Len(args) + 1 < 3 THEN d
    ELSE IF float_raises(args[1]) \/ float_raises(args[2]) THEN d
    ELSE LET target == float_value(args[1])
             amount == float_value(args[2])
         IN IF cmd = "/admin_add"
            THEN add_balance(ensure_user(d, target), target, amount)
            ELSE set_balance(ensure_user(d, target), target, 0)

\* lines 701-734: /admin_add and /admin_remove, sent by from_id; args are the
\* parts of msg.text.split() after the command.  int() and float() agree on the
\* texts the model sends, an optional sign and decimal digits or no number.
cmd_admin_modify(d, from_id, cmd, args) ==
    IF from_id # ADMIN_TELEGRAM_ID THEN d
    ELSE IF Len(args) + 1 < 3 THEN d
    ELSE IF float_raises(args[1]) \/ float_raises(args[2]) THEN d
    ELSE LET target == float_value(args[1])
             amount == float_value(args[2])
         IN IF cmd = "/admin_add"
            THEN add_balance(ensure_user(d, target), target, amount)
            ELSE LET e == ensure_user(d, target)
                     bal == get_balance(e, target)
                     newbal == Max(0, bal - amount)
                 IN set_balance(e, target, newbal)

\* lines 770-797 and 820-847: the request to Payhero and what follows it.
initiate(d, external, chat_id, movie_id, amount, ptype, phone, gateway) ==
    IF /\ gateway # "exception"                                \* lines 781-786
       /\ gateway \in {"200", "201", "200 text", "200 null"}     \* resp.status_code in (200,201)
       /\ gateway # "200 null"      \* data.get raises AttributeError when data is no dict
    THEN create_pending_payment(d, external, chat_id, movie_id, amount, ptype, phone)
    ELSE d

\* handle_text, lines 750-866: the database and the conversation state after it.
handle_text(d, aw, chat_id, txt, gateway, ts) ==
    LET state == aw[chat_id]
        e == ensure_user(d, chat_id)
        phone == normalize_phone(txt)
        popped == [aw EXCEPT ![chat_id] = NoState]
    IN CASE state.type = "purchase" ->
               LET movie == get_movie(state.movie_id)
               IN IF movie = <<>> \/ phone = <<>> THEN [d |-> e, aw |-> popped]
                  ELSE [d |-> initiate(e, make_external_reference(chat_id, "PUR", state.movie_id, ts),
                                       chat_id, state.movie_id, movie[1].price, "purchase",
                                       phone[1], gateway),
                        aw |-> popped]
         [] state.type = "topup_wait_amount" ->
               IF float_raises(txt) \/ LessEq(float_value(txt), 0) THEN [d |-> e, aw |-> aw]
               ELSE [d |-> e,
                     aw |-> [aw EXCEPT ![chat_id] =
                                [type |-> "topup", movie_id |-> NULL,
                                 amount |-> float_value(txt)]]]
         [] state.type = "topup" ->
               IF phone = <<>> THEN [d |-> e, aw |-> popped]
               ELSE [d |-> initiate(e, make_external_reference(chat_id, "TOPUP", NULL, ts),
                                    chat_id, NULL, state.amount, "topup", phone[1], gateway),
                     aw |-> popped]
         [] OTHER -> [d |-> e, aw |-> aw]

\* A handler changes the chat side of the state to r.
ChatResult(r, l) ==
    /\ SomeChatThreadIdle
    /\ \A c \in Accounts :
          Cardinality({ x \in DOMAIN r.d.pending_payments :
                          r.d.pending_payments[x].chat_id = c }) <= MaxIntents
    /\ db' = r.d
    /\ awaiting_phone' = r.aw
    /\ last' = l
    /\ UNCHANGED <<delivered, credited, now, http, chat>>

PayStk(chat_id, movie_id) ==
    ChatResult(pay_stk(db, awaiting_phone, chat_id, movie_id), NoCall)
CmdTopup(chat_id) == ChatResult(cmd_topup(db, awaiting_phone, chat_id), NoCall)
\* What a text message is recorded by.
TextOf(chat_id, txt, gateway) ==
    [called |-> FALSE, op |-> "text", chat_id |-> chat_id, txt |-> txt,
     gateway |-> gateway, state |-> awaiting_phone[chat_id], ts |-> now, pre |-> db]
HandleText(chat_id, txt, gateway) ==
    ChatResult(handle_text(db, awaiting_phone, chat_id, txt, gateway, now),
               TextOf(chat_id, txt, gateway))

\* A whole conversation of one account that ends in a request to Payhero, its
\* messages handled one after the other with no callback or button press between
\* them: /topup, the amount, the phone.
TopupTalk(chat_id, amount_txt, phone_txt, gateway) ==
    LET r1 == cmd_topup(db, awaiting_phone, chat_id)
        r2 == handle_text(r1.d, r1.aw, chat_id, amount_txt, "200", now)
        r3 == handle_text(r2.d, r2.aw, chat_id, phone_txt, gateway, now)
    IN /\ r3.aw = awaiting_phone
       /\ ChatResult(r3, NoCall)

\* Buy (STK), then the phone.
StkTalk(chat_id, movie_id, phone_txt, gateway) ==
    LET r1 == pay_stk(db, awaiting_phone, chat_id, movie_id)
        r2 == handle_text(r1.d, r1.aw, chat_id, phone_txt, gateway, now)
    IN /\ r2.aw = awaiting_phone
       /\ ChatResult(r2, NoCall)

(***************************************************************************)
(* The threaded program: request threads and handler threads take one      *)
(* step at a time.                                                         *)
(***************************************************************************)
\* A press of Buy (Balance) is given to an idle handler thread.
PayBalPress(th, chat_id, movie_id) ==
    /\ FirstIdle(ChatThreads, chat, th)
    /\ Room
    /\ LET r == PayStep(World, [ChatIdle EXCEPT !.pc = "start", !.chat_id = chat_id,
                                                !.movie_id = movie_id], TgAllOk)
       IN /\ SetWorld(r.w)
          /\ chat' = [chat EXCEPT ![th] = IF r.loc.pc = "done" THEN ChatIdle ELSE r.loc]
    /\ UNCHANGED <<awaiting_phone, now, http, last>>

PayBalStep(th, tg) ==
    /\ chat[th].pc # "idle"
    /\ LET r == PayStep(World, chat[th], tg)
       IN /\ SetWorld(r.w)
          /\ chat' = [chat EXCEPT ![th] = IF r.loc.pc = "done" THEN ChatIdle ELSE r.loc]
    /\ UNCHANGED <<awaiting_phone, now, http, last>>

\* A POST to /payhero_callback is given to a request thread of its own.
Receive(wk, payload) ==
    /\ FirstIdle(Workers, http, wk)
    /\ Room
    /\ LET r == CbStep(World, [Idle EXCEPT !.pc = "start"], payload, TgAllOk)
       IN /\ SetWorld(r.w)
          /\ http' = [http EXCEPT ![wk] = IF Finished(r.loc) THEN Idle ELSE r.loc]
    /\ UNCHANGED <<awaiting_phone, now, chat, last>>

CallbackStep(wk, tg) ==
    /\ http[wk].pc # "idle"
    /\ LET r == CbStep(World, http[wk], None, tg)
       IN /\ SetWorld(r.w)
          /\ http' = [http EXCEPT ![wk] = IF Finished(r.loc) THEN Idle ELSE r.loc]
    /\ UNCHANGED <<awaiting_phone, now, chat, last>>

\* Telegram outcomes matter only to the steps that send.
TgFor(pc) == IF pc \in {"deliver", "record"} THEN TgOutcomes ELSE {TgAllOk}

\* Handlers of different accounts touch different rows; the threaded program is
\* run with the requests of one account.
Racing == {1}

Next ==
    \/ \E c \in Racing, a \in AmountTexts, t \in PhoneTexts, g \in GatewayOutcomes :
          TopupTalk(c, a, t, g)
    \/ \E c \in Racing, m \in DOMAIN movies, t \in PhoneTexts, g \in GatewayOutcomes :
          StkTalk(c, m, t, g)
    \/ \E th \in ChatThreads, c \in Racing, m \in MovieButtons : PayBalPress(th, c, m)
    \/ \E th \in ChatThreads : \E tg \in TgFor(chat[th].pc) : PayBalStep(th, tg)
    \/ \E wk \in Workers : \E p \in PlainPayloads(db) : Receive(wk, p)
    \/ \E wk \in Workers : \E tg \in TgFor(http[wk].pc) : CallbackStep(wk, tg)

Spec == Init /\ [][Next]_vars

(***************************************************************************)
(* The program with one handler at a time: every call runs to its return.  *)
(***************************************************************************)
SeqPayBal(chat_id, movie_id, tg) ==
    /\ Room
    /\ SetWorld(cb_handler_pay_bal(World, chat_id, movie_id, tg).w)
    /\ last' = [called |-> FALSE, op |-> "pay_bal", chat_id |-> chat_id,
                movie_id |-> movie_id, document |-> tg.document, pre |-> World]
    /\ UNCHANGED <<awaiting_phone, now, http, chat>>

\* What a call is recorded by: the payload itself if it is one of PlainPayloads,
\* the reference it resolves to, and what the properties below ask of a payload.
CallOf(payload, tg, w, r) ==
    [called |-> TRUE,
     op |-> "callback",
     payload |-> payload,
     plain |-> IF payload \in PlainPayloads(w.d) THEN payload ELSE None,
     success |-> determine_success(deep_find(payload, ResultCodeKeys),
                                   deep_find(payload, StatusKeys)),
     external |-> find_external(payload),
     keyless |-> ~MentionsKey(payload, ExternalKeys),
     carries |-> CarriesReference(payload),
     found |-> <<deep_find(payload, ExternalKeys), deep_find(payload, ResultCodeKeys),
                 deep_find(payload, StatusKeys)>>,
     first |-> <<FirstFound(payload, ExternalKeys), FirstFound(payload, ResultCodeKeys),
                 FirstFound(payload, StatusKeys)>>,
     zero_code |-> NumericZero(deep_find(payload, ResultCodeKeys)),
     success_word |-> SaysSuccess(deep_find(payload, StatusKeys)),
     document |-> tg.document,
     pre |-> w,
     resp |-> r.resp,
     again |-> last.called /\ last.plain.t # "null" /\ last.plain = payload]

SeqCallback(payload, tg) ==
    /\ Room
    /\ LET r == process_callback_payload(World, payload, tg)
       IN /\ SetWorld(r.w)
          /\ last' = CallOf(payload, tg, World, r)
    /\ UNCHANGED <<awaiting_phone, now, http, chat>>

SeqNext ==
    \/ \E c \in Racing, a \in AmountTexts, t \in PhoneTexts, g \in GatewayOutcomes :
          TopupTalk(c, a, t, g)
    \/ \E c \in Racing, m \in DOMAIN movies, t \in PhoneTexts, g \in GatewayOutcomes :
          StkTalk(c, m, t, g)
    \/ \E c \in Racing, m \in MovieButtons,
          tg \in {TgAllOk, TgAllFail, [TgAllOk EXCEPT !.confirm = FALSE]} : SeqPayBal(c, m, tg)
    \/ \E p \in PlainPayloads(db) : SeqCallback(p, TgAllOk)
    \/ \E r \in DOMAIN pending_payments, tg \in TgOutcomes \ {TgAllOk} :
          SeqCallback(SuccessPayload(r), tg)

SeqSpec == Init /\ [][SeqNext]_vars

(***************************************************************************)
(* The same with the admin commands.                                       *)
(***************************************************************************)
\* Whole conversations and whole callbacks of both accounts.
FrameNext ==
    \/ \E c \in Accounts, t \in PhoneTexts : TopupTalk(c, <<"5">>, t, "200")
    \/ \E c \in Racing, t \in PhoneTexts : StkTalk(c, XV1, t, "200")
    \/ \E p \in PlainPayloads(db), tg \in {TgAllOk, TgAllFail} : SeqCallback(p, tg)

FrameSpec == Init /\ [][FrameNext]_vars

\* The callbacks alone, each request thread running on until it returns.
LiveNext ==
    \/ \E c \in Racing, t \in PhoneTexts : TopupTalk(c, <<"5">>, t, "200")
    \/ \E c \in Racing, m \in DOMAIN movies, t \in PhoneTexts : StkTalk(c, m, t, "200")
    \/ \E wk \in Workers : \E p \in PlainPayloads(db) : Receive(wk, p)
    \/ \E wk \in Workers : \E tg \in TgFor(http[wk].pc) : CallbackStep(wk, tg)

LiveSpec ==
    /\ Init
    /\ [][LiveNext]_vars
    /\ \A wk \in Workers : WF_vars(\E tg \in TgFor(http[wk].pc) : CallbackStep(wk, tg))

\* /admin_remove target amount from the admin, taken by a handler thread: the
\* read of the balance now, the write in a later step of the thread.
AdminRemovePress(th, target, amount) ==
    /\ FirstIdle(ChatThreads, chat, th)
    /\ Room
    /\ LET r == PayStep(World, [ChatIdle EXCEPT !.pc = "remove", !.chat_id = target,
                                                !.amount = amount], TgAllOk)
       IN /\ SetWorld(r.w)
          /\ chat' = [chat EXCEPT ![th] = r.loc]
    /\ UNCHANGED <<awaiting_phone, now, http, last>>

\* The threaded program with the admin removing from the racing account.
RaceNext ==
    \/ Next
    \/ \E th \in ChatThreads, c \in Racing : AdminRemovePress(th, c, 5)

RaceSpec == Init /\ [][RaceNext]_vars

AdminCommands == {"/admin_add", "/admin_remove"}
AdminAmountTexts == { <<"5">>, <<"-", "5">>, <<"x">> }
\* The words after the command: none, a chat id alone, a chat id and an amount.
AdminArgs ==
    { <<>>, << <<"1">> >> }
    \cup { <<t, a>> : t \in { <<"1">>, <<"x">> }, a \in AdminAmountTexts }

\* The command, recorded by l.
AdminModify(from_id, cmd, args, l) ==
    LET d == cmd_admin_modify(db, from_id, cmd, args)
    IN /\ \A c \in DOMAIN d.users : d.users[c] <= MaxBalance /\ 0 - d.users[c] <= MaxBalance
       /\ db' = d
       /\ last' = l
       /\ UNCHANGED <<delivered, credited, awaiting_phone, now, http, chat>>

AdminNext ==
    \/ \E c \in Racing, a \in AmountTexts, t \in PhoneTexts : TopupTalk(c, a, t, "200")
    \/ \E c \in Racing, m \in DOMAIN movies, t \in PhoneTexts : StkTalk(c, m, t, "200")
    \/ \E c \in Racing, m \in MovieButtons : SeqPayBal(c, m, TgAllOk)
    \/ \E p \in PlainPayloads(db) : SeqCallback(p, TgAllOk)
    \/ \E f \in Accounts, cmd \in AdminCommands, a \in AdminAmountTexts :
          AdminModify(f, cmd, << <<"1">>, a >>, NoCall)

AdminSpec == Init /\ [][AdminNext]_vars

\* Admin commands from every sender and in every form, among top-ups.
GuardNext ==
    \/ \E c \in Racing, a \in AmountTexts, t \in PhoneTexts : TopupTalk(c, a, t, "200")
    \/ \E p \in PlainPayloads(db) : SeqCallback(p, TgAllOk)
    \/ \E f \in Accounts, cmd \in AdminCommands, args \in AdminArgs :
          AdminModify(f, cmd, args, [called |-> FALSE, op |-> "admin", from_id |-> f,
                                     args |-> args, pre |-> db])

GuardSpec == Init /\ [][GuardNext]_vars

(***************************************************************************)
(* The callbacks of every shape, one at a time, against top-up intents.    *)
(***************************************************************************)
PayloadNext ==
    \/ \E c \in Racing, a \in AmountTexts, t \in PhoneTexts, g \in GatewayOutcomes :
          TopupTalk(c, a, t, g)
    \/ \E p \in Payloads(db) : SeqCallback(p, TgAllOk)

PayloadSpec == Init /\ [][PayloadNext]_vars

(***************************************************************************)
(* POSTs to the two routes, one at a time.                                 *)
(***************************************************************************)
Json(v) == [kind |-> "json", value |-> v]
Embedded(v) == [kind |-> "embedded", value |-> v]
Garbage == [kind |-> "garbage", value |-> None]

Bodies(d) ==
    { Json(v) : v \in { Dict(<<>>), List(<<>>), List(<<IntV(1)>>), List(<<Str(RESPONSE)>>),
                        IntV(5), IntV(0), Str(<<"x">>), Str(RESPONSE), Bool(TRUE), None,
                        Dict(Ok) } }
    \cup { Json(SuccessPayload(r)) : r \in References(d) }
    \cup { Embedded(SuccessPayload(r)) : r \in References(d) }
    \cup { Embedded(Dict(<<>>)), Garbage }

Routes == {"/payhero_callback", "/"}

Post(route, body, tg) ==
    /\ Room
    /\ LET r == IF route = "/" THEN root_handler(World, body, tg)
                ELSE payhero_callback(World, body, tg)
       IN /\ SetWorld(r.w)
          /\ last' = [called |-> FALSE, op |-> "post", body |-> body, pre |-> World,
                      resp |-> r.resp]
    /\ UNCHANGED <<awaiting_phone, now, http, chat>>

HttpNext ==
    \/ \E c \in Racing, a \in AmountTexts, t \in PhoneTexts, g \in GatewayOutcomes :
          TopupTalk(c, a, t, g)
    \/ \E route \in Routes, body \in Bodies(db) : Post(route, body, TgAllOk)

HttpSpec == Init /\ [][HttpNext]_vars

(***************************************************************************)
(* The conversations, message by message.                                  *)
(***************************************************************************)
ChatNext ==
    \/ Tick
    \/ \E c \in Racing, m \in MovieButtons : PayStk(c, m)
    \/ \E c \in Racing : CmdTopup(c)
    \/ \E c \in Racing, txt \in Texts, g \in GatewayOutcomes : HandleText(c, txt, g)

ChatSpec == Init /\ [][ChatNext]_vars

(***************************************************************************)
(* Properties.  In SeqSpec and PayloadSpec, last describes the call of     *)
(* process_callback_payload that produced the current state: last.pre is   *)
(* the world it started in, last.resp what it answered.                    *)
(***************************************************************************)
\* The call resolved to the row of pending_payments it names.
Resolved == last.called /\ last.external.t = "str"
               /\ last.external.s \in DOMAIN last.pre.d.pending_payments
Intent == last.pre.d.pending_payments[last.external.s]
PurchasesOf(d, r) == { i \in 1..Len(d.purchases) : d.purchases[i].external_ref = r }
DeliveriesOf(r) == { i \in 1..Len(delivered) : delivered[i].external_ref = r }
TimesCredited(r) == IF r \in DOMAIN credited THEN credited[r] ELSE 0

\* C1: when the same successful payload for a topup intent is handled twice in
\* a row, the second call changes no balance and appends nothing to purchases.
C1_SecondCallIsNoOp ==
    (Resolved /\ last.again /\ Intent.type = "topup"
        /\ last.plain = SuccessPayload(last.external.s))
    => /\ users = last.pre.d.users
       /\ purchases = last.pre.d.purchases

\* C2: under every interleaving of the request threads, each reference is
\* credited at most once, delivered at most once, and carried by at most one
\* row of purchases.
C2_EffectAtMostOnce ==
    \A r \in DOMAIN pending_payments :
        /\ TimesCredited(r) <= 1
        /\ Cardinality(DeliveriesOf(r)) <= 1
        /\ Cardinality(PurchasesOf(db, r)) <= 1

\* C3: in every step, every intent stays, and its status either stays as it is
\* or goes from QUEUED to success or to failed.
C3_StatusMonotonic ==
    [][\A r \in DOMAIN pending_payments :
          /\ r \in DOMAIN pending_payments'
          /\ \/ pending_payments'[r].status = pending_payments[r].status
             \/ /\ pending_payments[r].status = "QUEUED"
                /\ pending_payments'[r].status \in {"success", "failed"}]_vars

\* C4: two handler threads never both pass charge_balance's test for one
\* account whose balance does not cover both amounts, and no balance is negative.
C4_OneDebitSucceeds ==
    /\ \A th \in ChatThreads, o \in ChatThreads :
          (th # o /\ chat[th].pc = "update" /\ chat[o].pc = "update"
              /\ chat[th].chat_id = chat[o].chat_id)
          => get_balance(db, chat[th].chat_id) >= chat[th].price + chat[o].price
    /\ \A c \in DOMAIN users : users[c] >= 0

\* C5: in no state has a topup intent the status success while it has neither
\* been credited nor recorded in purchases.
C5_NoPartialApplication ==
    \A r \in DOMAIN pending_payments :
        (pending_payments[r].type = "topup" /\ pending_payments[r].status = "success")
        => TimesCredited(r) > 0 \/ PurchasesOf(db, r) # {}

\* C6: a payload with no reference alias key at any level is answered with
\* status false and HTTP 200, and leaves the database as it was.
C6_UnresolvableReference ==
    (last.called /\ last.keyless)
    => /\ ~last.resp.raised
       /\ ~last.resp.status
       /\ last.resp.code = 200
       /\ db = last.pre.d

C6_Witness ==
    /\ last.called /\ last.keyless
    /\ DOMAIN pending_payments # {}
    /\ Len(purchases) > 0

\* C7: a payload whose resolved reference matches no row of pending_payments is
\* answered with HTTP 200 and status false, and leaves the database as it was.
C7_UnknownReference ==
    (last.called /\ ~Falsy(last.external) /\ ~Resolved)
    => /\ last.resp.code = 200
       /\ ~last.resp.status
       /\ db = last.pre.d

\* C8: a successful payload for a QUEUED topup intent of amount A owned by U
\* raises the balance of U by A, appends the one row (U, no item, A, stk_topup,
\* reference) to purchases, and sets the intent's status to success.
C8_TopupEffect ==
    (Resolved /\ Intent.type = "topup" /\ Intent.status = "QUEUED"
        /\ last.plain = SuccessPayload(last.external.s))
    => /\ get_balance(db, Intent.chat_id)
             = get_balance(last.pre.d, Intent.chat_id) + Intent.amount
       /\ purchases = Append(last.pre.d.purchases,
                             [chat_id |-> Intent.chat_id, movie_id |-> NULL,
                              amount |-> Intent.amount, method |-> "stk_topup",
                              external_ref |-> last.external.s])
       /\ pending_payments[last.external.s].status = "success"

C8_Witness ==
    /\ Resolved /\ Intent.type = "topup" /\ Intent.status = "QUEUED"
    /\ last.plain = SuccessPayload(last.external.s)
    /\ get_balance(last.pre.d, Intent.chat_id) > 0

\* C9: a payload that resolves to a QUEUED intent and reports failure sets the
\* intent's status to failed, changes no balance, delivers nothing and appends
\* nothing to purchases.
C9_FailureEffect ==
    (Resolved /\ Intent.status = "QUEUED"
        /\ last.plain = FailurePayload(last.external.s))
    => /\ pending_payments[last.external.s].status = "failed"
       /\ users = last.pre.d.users
       /\ delivered = last.pre.delivered
       /\ purchases = last.pre.d.purchases

C9_Witness ==
    /\ Resolved /\ Intent.status = "QUEUED"
    /\ last.plain = FailurePayload(last.external.s)
    /\ get_balance(last.pre.d, Intent.chat_id) > 0
    /\ Len(last.pre.d.purchases) > 0

\* C10: a callback that resolves to an intent is treated as successful exactly
\* when its result code is a number equal to 0 or its status is one of success,
\* completed, ok in any letter case; it is treated as failed otherwise.
C10_SuccessDetermination ==
    Resolved
    => pending_payments[last.external.s].status
          = IF last.zero_code \/ last.success_word THEN "success" ELSE "failed"

\* The purchase intent of the call names a movie that get_movie does not find,
\* or one without file_id.
MovieMissing ==
    \/ Intent.movie_id \notin DOMAIN movies
    \/ Len(movies[Intent.movie_id].file_id) = 0

\* C11: whatever the store holds and whatever becomes of each message to
\* Telegram, a call with a mapping payload returns a body with HTTP 200 and
\* never raises.
C11_AlwaysAcknowledges ==
    (last.called /\ last.plain.t = "dict")
    => /\ ~last.resp.raised
       /\ last.resp.code = 200

\* C12: the database after a call is the one the same call leaves when every
\* notification of the call is accepted by Telegram.
C12_NotificationsDoNotMatter ==
    (last.called /\ last.plain.t = "dict")
    => db = process_callback_payload(last.pre, last.plain,
                                     [TgAllOk EXCEPT !.document = last.document]).w.d

\* C13: a successful payload for a purchase intent whose movie is absent or has
\* no file_id sets the intent to success, delivers nothing, appends nothing to
\* purchases, and is answered with status false and HTTP 200.
C13_MovieMissing ==
    (Resolved /\ Intent.type = "purchase" /\ MovieMissing
        /\ last.plain = SuccessPayload(last.external.s))
    => /\ pending_payments[last.external.s].status = "success"
       /\ delivered = last.pre.delivered
       /\ purchases = last.pre.d.purchases
       /\ ~last.resp.raised
       /\ ~last.resp.status
       /\ last.resp.code = 200

\* C14: a POST whose body holds JSON, as a whole or between its first { and its
\* last }, is answered 200; 400 is answered only when it holds none; no POST is
\* answered with a server error.
C14_WebhookStatusCodes ==
    last.op = "post"
    => /\ ~last.resp.raised
       /\ last.resp.code = IF last.body.kind = "garbage" THEN 400 ELSE 200

\* C15: no step changes the owner, kind, item or amount of an intent that
\* exists, removes it, or returns it to QUEUED.
C15_CreateDoesNotOverwrite ==
    [][\A r \in DOMAIN pending_payments :
          /\ r \in DOMAIN pending_payments'
          /\ pending_payments'[r].chat_id = pending_payments[r].chat_id
          /\ pending_payments'[r].type = pending_payments[r].type
          /\ pending_payments'[r].movie_id = pending_payments[r].movie_id
          /\ pending_payments'[r].amount = pending_payments[r].amount
          /\ (pending_payments'[r].status = "QUEUED"
                 => pending_payments[r].status = "QUEUED")]_vars

\* The text message of the last step was the phone number that makes
\* handle_text call Payhero: the account was asked for it in the purchase flow
\* (for a movie of the catalogue) or in the top-up flow, and it is a phone number.
Initiating ==
    /\ last.op = "text"
    /\ normalize_phone(last.txt) # <<>>
    /\ \/ last.state.type = "topup"
       \/ last.state.type = "purchase" /\ last.state.movie_id \in DOMAIN movies
\* Payhero answered the call with status 200 or 201.
Accepted == last.gateway \notin {"exception", "500"}

\* C17: handle_text leaves a QUEUED intent of the account and the flow's kind
\* when it called Payhero and was answered 200 or 201, and leaves
\* pending_payments as it was otherwise.
C17_IntentIffInitiated ==
    last.op = "text"
    => IF Initiating /\ Accepted
       THEN \E r \in DOMAIN pending_payments :
               /\ pending_payments[r].chat_id = last.chat_id
               /\ pending_payments[r].type = last.state.type
               /\ pending_payments[r].amount = last.state.amount
               /\ pending_payments[r].status = "QUEUED"
       ELSE pending_payments = last.pre.pending_payments

\* C16: in every state every balance is at least 0.
C16_BalancesNonNegative ==
    \A c \in DOMAIN users : get_balance(db, c) >= 0

\* The call handled a successful payload for a purchase intent whose movie is
\* in the catalogue with a file_id.
PaidPurchase ==
    /\ Resolved /\ Intent.type = "purchase" /\ ~MovieMissing
    /\ last.plain = SuccessPayload(last.external.s)

\* C18: a successful payload for a QUEUED purchase intent whose movie has a
\* file_id sends the document to the owner, appends the one row (owner, movie,
\* amount, stk, reference) to purchases, changes no balance and sets the
\* intent's status to success.
C18_PurchaseEffect ==
    (PaidPurchase /\ Intent.status = "QUEUED")
    => /\ delivered = Append(last.pre.delivered,
                             [chat_id |-> Intent.chat_id,
                              file_id |-> movies[Intent.movie_id].file_id,
                              external_ref |-> last.external.s])
       /\ purchases = Append(last.pre.d.purchases,
                             [chat_id |-> Intent.chat_id, movie_id |-> Intent.movie_id,
                              amount |-> Intent.amount, method |-> "stk",
                              external_ref |-> last.external.s])
       /\ users = last.pre.d.users
       /\ pending_payments[last.external.s].status = "success"

\* C19: when the payment of a purchase intent succeeded and the document did
\* not reach the account, the intent's status is success and a call that
\* returns answers delivery failed, not success.
C19_DeliveryFailure ==
    (PaidPurchase /\ delivered = last.pre.delivered /\ ~last.resp.raised)
    => /\ pending_payments[last.external.s].status = "success"
       /\ ~last.resp.status
       /\ last.resp.message = "delivery failed"

\* C20: every step leaves the rows purchases holds as they are, in their
\* places; the table changes only by rows appended after them.
C20_PurchasesAppendOnly ==
    [][/\ Len(purchases') >= Len(purchases)
       /\ SubSeq(purchases', 1, Len(purchases)) = purchases]_vars

C20_Witness ==
    \E i \in 1..Len(purchases), j \in 1..Len(purchases) :
        /\ i < j
        /\ purchases[i].method = "stk_topup"
        /\ purchases[j].method = "balance"

\* C21: a payload in which some reference alias key holds a non-empty value at
\* some nesting level is not answered "missing external reference", whatever
\* a shallower alias key holds.
C21_ResolutionComplete ==
    (last.called /\ last.carries)
    => ~(~last.resp.raised /\ last.resp.message = "missing external reference")

\* C22: deep_find returns the value of the first alias, in alias order, that is a
\* key of the mapping it is given; where no alias is a key, the first result
\* that is not null of a depth-first walk of the values in document order,
\* through mappings and lists of mappings; and null where there is none or the
\* input is no mapping.  Checked for the three alias lists of the callback.
C22_SearchOrder ==
    last.called => last.found = last.first

C22_Witness ==
    /\ last.called
    /\ last.found[1].t = "str"
    /\ last.found[1].s \in DOMAIN last.pre.d.pending_payments
    /\ ~last.keyless /\ last.carries
    /\ last.found[2] = IntV(0)
    /\ last.found[3] = None
    /\ last.resp.status

\* C27: two payloads that resolve to the same reference and are both determined
\* successful leave the same database behind when processed from the same
\* state, whatever else they carry: a successful callback leaves what the bare
\* success callback for its reference leaves.
C27_PayloadCannotInfluence ==
    (last.called /\ Resolved /\ last.success)
    => db = process_callback_payload(last.pre, SuccessPayload(last.external.s), TgAllOk).w.d

C27_Witness ==
    /\ last.called /\ Resolved /\ last.success
    /\ last.payload \in DetailPayloads(last.external.s)
    /\ last.pre.d.pending_payments[last.external.s].status = "QUEUED"
    /\ get_balance(db, Intent.chat_id) > get_balance(last.pre.d, Intent.chat_id)

\* C24: a press of the pay_bal button for a catalogue item by an account whose
\* balance is at least the price lowers the balance by the price, appends one
\* row with method balance and no reference to purchases, and sends the
\* content; with a lower balance it changes no balance, no row of purchases or
\* pending_payments, and sends nothing.  Stated for items that have a file
\* and for presses during which Telegram accepts documents.
C24_BalancePurchase ==
    (/\ last.op = "pay_bal"
     /\ last.movie_id \in DOMAIN movies
     /\ Len(movies[last.movie_id].file_id) > 0
     /\ last.document)
    => LET U == last.chat_id
           price == movies[last.movie_id].price
           before == get_balance(last.pre.d, U)
       IN IF before >= price
          THEN /\ get_balance(db, U) = before - price
               /\ Len(purchases) = Len(last.pre.d.purchases) + 1
               /\ SubSeq(purchases, 1, Len(last.pre.d.purchases)) = last.pre.d.purchases
               /\ LET row == purchases[Len(purchases)]
                  IN /\ row.chat_id = U
                     /\ row.movie_id = last.movie_id
                     /\ row.amount = price
                     /\ row.method = "balance"
                     /\ row.external_ref = NULL
               /\ Len(delivered) = Len(last.pre.delivered) + 1
               /\ delivered[Len(delivered)].chat_id = U
               /\ delivered[Len(delivered)].file_id = movies[last.movie_id].file_id
               /\ pending_payments = last.pre.d.pending_payments
          ELSE /\ get_balance(db, U) = before
               /\ purchases = last.pre.d.purchases
               /\ pending_payments = last.pre.d.pending_payments
               /\ delivered = last.pre.delivered

\* C23: no write of /admin_remove overwrites a balance change committed since
\* its read: the step that writes leaves the balance that is there at the
\* write less the removed amount, and 0 where that is negative, so that the
\* final balance is the initial one plus the credits less the debits and the
\* removals.
C23_CreditsNeverLost ==
    [][\A th \in ChatThreads :
          (chat[th].pc = "set" /\ chat'[th].pc = "idle")
          => LET U == chat[th].chat_id
                 left == get_balance(db, U) - chat[th].amount
             IN get_balance(db', U) = IF left >= 0 THEN left ELSE 0]_vars

\* Every reference the bot can make.
AllReferences ==
    { make_external_reference(c, "TOPUP", NULL, ts) : c \in Accounts, ts \in Seconds }
    \cup { make_external_reference(c, "PUR", m, ts) :
              c \in Accounts, m \in DOMAIN movies, ts \in Seconds }

\* C25: when a request thread has resolved a callback to an intent that is
\* QUEUED, the intent eventually has status success or failed, the thread
\* being scheduled fairly.
C25_CallbackFinalizes ==
    \A r \in AllReferences :
        (\E wk \in Workers :
            /\ http[wk].pc = "finalize"
            /\ http[wk].external = r
            /\ pending_payments[r].status = "QUEUED")
        ~> (r \in DOMAIN pending_payments
            /\ pending_payments[r].status \in {"success", "failed"})

C25_Witness ==
    \E wk \in Workers :
        /\ http[wk].pc = "finalize"
        /\ ~http[wk].success
        /\ pending_payments[http[wk].external].status = "QUEUED"

\* C26: a callback for an intent owned by U changes the balance of no account
\* but U and the status of no other intent, and every row it appends to
\* purchases has chat_id U.  (The catalogue is written by add_movie alone,
\* which no callback reaches.)
C26_ConfinedToOwner ==
    Resolved
    => LET U == Intent.chat_id
       IN /\ \A c \in Accounts \ {U} : get_balance(db, c) = get_balance(last.pre.d, c)
          /\ DOMAIN pending_payments = DOMAIN last.pre.d.pending_payments
          /\ \A r \in DOMAIN pending_payments \ {last.external.s} :
                pending_payments[r] = last.pre.d.pending_payments[r]
          /\ Len(purchases) >= Len(last.pre.d.purchases)
          /\ \A i \in 1..Len(purchases) :
                IF i <= Len(last.pre.d.purchases)
                THEN purchases[i] = last.pre.d.purchases[i]
                ELSE purchases[i].chat_id = U

C26_Witness ==
    /\ Resolved /\ last.success
    /\ Len(purchases) > Len(last.pre.d.purchases)
    /\ \E c \in Accounts \ {Intent.chat_id} : get_balance(db, c) > 0
    /\ \E r \in DOMAIN pending_payments :
          /\ pending_payments[r].chat_id # Intent.chat_id
          /\ pending_payments[r].status = "QUEUED"

\* txt is a number: an optional sign, then decimal digits.
Numeric(txt) ==
    \E k \in 1..Len(txt) :
        /\ k = 1 \/ (k = 2 /\ txt[1] \in {"+", "-"})
        /\ \A i \in k..Len(txt) : txt[i] \in {"0", "1", "2", "3", "4", "5", "6", "7", "8", "9"}

ValidPositive(txt) ==
    /\ Len(txt) > 0
    /\ \A i \in 1..Len(txt) : txt[i] \in {"0", "1", "2", "3", "4", "5", "6", "7", "8", "9"}
    /\ \E i \in 1..Len(txt) : txt[i] # "0"

\* C29: a text received in state topup_wait_amount moves the account to state
\* topup with that amount if it is a valid positive amount and leaves the
\* state as it is otherwise; a text received in state purchase or topup clears
\* the state; a row of pending_payments is written only by a text received in
\* state purchase or topup, with that type, the account's chat_id and the
\* amount the state holds; a text received in no state changes neither.
C29_Conversation ==
    last.op = "text"
    => LET was == last.state
           is == awaiting_phone[last.chat_id]
           written == { r \in DOMAIN pending_payments :
                          \/ r \notin DOMAIN last.pre.pending_payments
                          \/ pending_payments[r] # last.pre.pending_payments[r] }
       IN CASE was.type = "topup_wait_amount" ->
                  /\ written = {}
                  /\ IF ValidPositive(last.txt)
                     THEN is.type = "topup" /\ is.amount = CharsToNat(last.txt)
                     ELSE is = was
            [] was.type \in {"purchase", "topup"} ->
                  /\ is = NoState
                  /\ \A r \in written :
                        /\ pending_payments[r].type = was.type
                        /\ pending_payments[r].chat_id = last.chat_id
                        /\ pending_payments[r].amount = was.amount
            [] OTHER -> is = was /\ written = {}

=============================================================================
